---- MODULE Spec2Model ----
(***************************************************************************)
(* A model of vaders: the key-state table (input.rs), the sprite resource  *)
(* model (sprite.rs), and the renderer, surface and event loop (main.rs).  *)
(*                                                                         *)
(* Numbers.  Lengths and translation vectors are held in hundredths of a   *)
(* unit (0.07 is 7, 30.0 is 3000); scale factors and the homogeneous row   *)
(* are plain integers.  This is the program's matrix conjugated by         *)
(* diag(100,100,100,1), so every product below is exact integer            *)
(* arithmetic; f32 rounding is not modelled.  Colours are in hundredths.   *)
(***************************************************************************)
EXTENDS Integers, Sequences, FiniteSets, TLC

VARIABLES
    pc,          \* where main is: "start", "run" (before the Init event), "loop"
                 \* (between events), a statement of the redraw arm, or "done"
    outcome,     \* "running", or how the process ended: "ok", "err", "panic"
    failed,      \* ghost: the fallible steps that have failed so far
    KEYS,        \* input.rs: static mut KEYS
    surface,     \* main: Option<Surface>
    window_size, \* ghost: the size the window reported last, and how
    player,      \* main: Option<Sprite>
    pool,        \* sprites created through the library interface
    hist,        \* ghost, per sprite: its matrix at creation and the deltas applied
    frames,      \* surface textures acquired and not yet presented
    presented,   \* ghost: the frame the current handler handed to present()
    cmds,        \* the calls render() made in the current handler
    submitted,   \* what its queue.submit made the GPU read
    trace,       \* ghost: the operations the current handler performed, in order
    ev           \* ghost: the event or call handled by the last step

vars == <<pc, outcome, failed, KEYS, surface, window_size, player, pool, hist,
          frames, presented, cmds, submitted, trace, ev>>

----------------------------------------------------------------------------
(* Bounds of the model *)

NumKeys == 3
MaxDim == 2
MaxMoves == 3
MaxSprites == 2
MaxList == 2

----------------------------------------------------------------------------
(* Option<T> as a sequence of length at most one *)

None == <<>>
Some(x) == <<x>>
is_some(o) == Len(o) = 1
unwrap(o) == o[1]

Max(a, b) == IF a >= b THEN a ELSE b

----------------------------------------------------------------------------
(* input.rs *)

KeyCodes == 0 .. (NumKeys - 1)
ArrowLeft == 1
ArrowRight == 2

KEYS_init == [k \in KeyCodes |-> FALSE]

register_key_state_inverted(keys, key, state) ==
    [keys EXCEPT ![key] = (state = "Released")]

register_key_state(keys, key, state) ==
    [keys EXCEPT ![key] = CASE state = "Pressed" -> TRUE
                            [] state = "Released" -> FALSE]

is_key_pressed(keys, key) == keys[key]

----------------------------------------------------------------------------
(* nalgebra_glm as sprite.rs uses it.  A matrix is indexed m[row][col]. *)

identity == [r \in 1..4 |-> [c \in 1..4 |-> IF r = c THEN 1 ELSE 0]]

vec2_to_vec3(v) == <<v[1], v[2], 0>>

\* translate(m, v) = m * T(v): column 4 gains, in every row, the row's dot
\* product with v.
translate(m, v) ==
    [r \in 1..4 |-> [c \in 1..4 |->
        IF c = 4 THEN m[r][4] + m[r][1] * v[1] + m[r][2] * v[2] + m[r][3] * v[3]
                 ELSE m[r][c]]]

\* scale(m, v) = m * S(v): column c is multiplied by v[c].
scale(m, v) ==
    [r \in 1..4 |-> [c \in 1..4 |-> IF c = 4 THEN m[r][c] ELSE m[r][c] * v[c]]]

\* The bytes of a matrix as handed to the GPU: nalgebra stores column-major.
Serialize(m) == [i \in 1..16 |-> m[((i - 1) % 4) + 1][((i - 1) \div 4) + 1]]

----------------------------------------------------------------------------
(* sprite.rs *)

Sprite_new(pos, size, id) ==
    LET pos3 == vec2_to_vec3(pos)
        size3 == [vec2_to_vec3(size) EXCEPT ![3] = 1]
        model_mat == scale(translate(identity, pos3), size3)
    IN  [model_mat |-> model_mat,
         model_buf |-> Serialize(model_mat),
         bind_group |-> id]

move_by_no_write(s, v) ==
    [s EXCEPT !.model_mat = translate(s.model_mat, vec2_to_vec3(v))]

move_by_world(s, v) ==
    LET m == [r \in 1..4 |-> [c \in 1..4 |->
                 IF c = 4 /\ r <= 2 THEN s.model_mat[r][4] + v[r]
                                    ELSE s.model_mat[r][c]]]
    IN  [s EXCEPT !.model_mat = m, !.model_buf = Serialize(m)]

move_by(s, v) ==
    LET m == translate(s.model_mat, vec2_to_vec3(v))
    IN  [s EXCEPT !.model_mat = m, !.model_buf = Serialize(m)]

get_bind_group(s) == s.bind_group

----------------------------------------------------------------------------
(* main.rs: Renderer *)

VERTICES ==
    << [pos |-> <<0, 100>>,   tex_coord |-> <<0, 100>>],
       [pos |-> <<100, 100>>, tex_coord |-> <<100, 100>>],
       [pos |-> <<0, 0>>,     tex_coord |-> <<0, 0>>],
       [pos |-> <<0, 0>>,     tex_coord |-> <<0, 0>>],
       [pos |-> <<100, 0>>,   tex_coord |-> <<100, 0>>],
       [pos |-> <<100, 100>>, tex_coord |-> <<100, 100>> ] >>

ClearColor == <<20, 20, 20, 100>>

\* The bind group Renderer::init builds for the projection buffer; sprites'
\* bind groups are numbered from 1.
proj_bind_group == 0

Cmd(op, slot, arg) == [op |-> op, slot |-> slot, arg |-> arg]

RECURSIVE DrawSprites(_)
DrawSprites(sprites) ==
    IF sprites = <<>> THEN <<>>
    ELSE << Cmd("set_bind_group", 1, <<get_bind_group(Head(sprites))>>),
            Cmd("draw", 0, <<Len(VERTICES), 1>>) >>
         \o DrawSprites(Tail(sprites))

render_first_only(target, sprites) ==
    << Cmd("begin_render_pass", target, ClearColor),
       Cmd("set_pipeline", 0, <<>>),
       Cmd("set_vertex_buffer", 0, <<>>),
       Cmd("set_bind_group", 0, <<proj_bind_group>>) >>
    \o DrawSprites(IF sprites = <<>> THEN <<>> ELSE <<Head(sprites)>>)
    \o << Cmd("end_render_pass", 0, <<>>),
          Cmd("submit", 0, <<>>) >>

\* The calls render() makes, in order.  begin_render_pass carries the target
\* view in its slot field and the clear colour as its argument.
render(target, sprites) ==
    << Cmd("begin_render_pass", target, ClearColor),
       Cmd("set_pipeline", 0, <<>>),
       Cmd("set_vertex_buffer", 0, <<>>),
       Cmd("set_bind_group", 0, <<proj_bind_group>>) >>
    \o DrawSprites(sprites)
    \o << Cmd("end_render_pass", 0, <<>>),
          Cmd("submit", 0, <<>>) >>

\* What the submitted draws read: each drawn sprite's transform buffer.
GpuReads(sprites) == [i \in 1..Len(sprites) |-> sprites[i].model_buf]

----------------------------------------------------------------------------
(* main.rs: Surface *)

Sizes == [width : 0..MaxDim, height : 0..MaxDim]

Surface_new(inner_size) ==
    LET width == Max(inner_size.width, 1)
        height == Max(inner_size.height, 1)
        config == [width |-> width, height |-> height]
    IN  [config |-> config, configured |-> config]

\* The frame a configured surface hands out.
next_texture(s) ==
    [width |-> s.configured.width, height |-> s.configured.height, submits |-> 0]

Surface_resize_noclamp(s, size) ==
    LET config == [s.config EXCEPT !.width = size.width, !.height = size.height]
    IN  [config |-> config, configured |-> config]

Surface_resize(s, size) ==
    LET config == [s.config EXCEPT !.width = Max(size.width, 1),
                                   !.height = Max(size.height, 1)]
    IN  [config |-> config, configured |-> config]

present_keep(fs) == fs

\* frame.present(): the frame leaves the set of outstanding frames.
present(fs) == SubSeq(fs, 1, Len(fs) - 1)

----------------------------------------------------------------------------
(* main.rs: main *)

PlayerPos == <<3000, 3000>>
PlayerSize == <<13, 8>>
PlayerStep == 7

\* The fallible steps of main before the event loop, in program order, and
\* how each ends the process when it fails: unwrap() panics, ? returns Err.
StartupSteps ==
    << "event_loop_new", "window_new", "request_adapter", "request_device",
       "image_open", "image_decode" >>

StepFailure(step) ==
    IF step \in {"window_new", "request_adapter", "request_device"}
    THEN "err" ELSE "panic"

\* The statements of the RedrawRequested arm, in program order.
RedrawArm_update_first == <<"update", "acquire", "render", "present">>

RedrawArm == <<"acquire", "update", "render", "present">>

After(stmt) ==
    LET i == CHOOSE j \in 1..Len(RedrawArm) : RedrawArm[j] = stmt
    IN  IF i < Len(RedrawArm) THEN RedrawArm[i + 1] ELSE "loop"

KeyEvents ==
    [escape : BOOLEAN, coded : BOOLEAN, key : KeyCodes,
     state : {"Pressed", "Released"}, repeat : BOOLEAN]

\* Which arm of the match a keyboard event takes.
KeyArm_any_repeat(e) ==
    IF e.escape THEN "exit"
    ELSE IF e.coded THEN "register"
    ELSE "ignore"

KeyArm(e) ==
    IF e.escape THEN "exit"
    ELSE IF e.coded /\ ~e.repeat THEN "register"
    ELSE "ignore"

Resized_ignored(s, size) == s

\* The Resized arm.
Resized_arm(s, size) == Some(Surface_resize(unwrap(s), size))

Terminate(how) ==
    /\ pc' = "done"
    /\ outcome' = how

\* A handler starts with nothing recorded, submitted or presented.
HandlerStarts ==
    /\ presented' = None
    /\ cmds' = <<>>
    /\ submitted' = <<>>
    /\ trace' = <<>>

\* The player's horizontal position stays within MaxMoves steps of its start.
StepLength == PlayerSize[1] * PlayerStep
InRange(x) ==
    /\ x >= PlayerPos[1] - MaxMoves * StepLength
    /\ x <= PlayerPos[1] + MaxMoves * StepLength

Init ==
    /\ pc = "start"
    /\ outcome = "running"
    /\ failed = {}
    /\ KEYS = KEYS_init
    /\ surface = None
    /\ window_size = None
    /\ player = None
    /\ pool = <<>>
    /\ hist = <<>>
    /\ frames = <<>>
    /\ presented = None
    /\ cmds = <<>>
    /\ submitted = <<>>
    /\ trace = <<>>
    /\ ev = [kind |-> "none"]

\* main up to event_loop.run: every fallible step succeeds, or the first one
\* that fails ends the process.
Startup ==
    /\ pc = "start"
    /\ \/ /\ pc' = "run"
          /\ UNCHANGED <<outcome, failed>>
       \/ \E i \in 1..Len(StartupSteps) :
             /\ failed' = failed \cup {StartupSteps[i]}
             /\ Terminate(StepFailure(StartupSteps[i]))
    /\ ev' = [kind |-> "startup"]
    /\ UNCHANGED <<KEYS, surface, window_size, player, pool, hist, frames,
                   presented, cmds, submitted, trace>>

\* Event::NewEvents(StartCause::Init)
NewEventsInit ==
    /\ pc = "run"
    /\ \/ \E size \in Sizes :
             /\ ev' = [kind |-> "init", size |-> size]
             /\ surface' = Some(Surface_new(size))
             /\ window_size' = Some([size |-> size, by |-> "inner_size"])
             /\ player' = Some(Sprite_new(PlayerPos, PlayerSize, 1))
             /\ pc' = "loop"
             /\ UNCHANGED <<outcome, failed>>
       \/ \E step \in {"create_surface", "get_default_config"} :
             /\ ev' = [kind |-> "init_failed"]
             /\ failed' = failed \cup {step}
             /\ Terminate("panic")
             /\ UNCHANGED <<surface, window_size, player>>
    /\ UNCHANGED <<KEYS, pool, hist, frames, presented, cmds, submitted, trace>>

Pressed(key) == IF is_key_pressed(KEYS, key) THEN 1 ELSE 0

\* WindowEvent::RedrawRequested is dispatched to its arm.
RedrawRequested ==
    /\ pc = "loop"
    /\ LET x == unwrap(player).model_mat[1][4]
       IN  /\ InRange(x + Pressed(ArrowRight) * StepLength)
           /\ InRange(x - Pressed(ArrowLeft) * StepLength)
    /\ pc' = RedrawArm[1]
    /\ HandlerStarts
    /\ ev' = [kind |-> "redraw"]
    /\ UNCHANGED <<outcome, failed, KEYS, surface, window_size, player, pool,
                   hist, frames>>

\* let frame = surface.next_texture(); let view = frame.texture.create_view(..)
AcquireFrame ==
    /\ pc = "acquire"
    /\ ev' = [kind |-> "redraw"]
    /\ \/ /\ frames' = Append(frames, next_texture(unwrap(surface)))
          /\ trace' = Append(trace, "acquire")
          /\ pc' = After("acquire")
          /\ UNCHANGED <<outcome, failed>>
       \/ /\ failed' = failed \cup {"get_current_texture"}
          /\ Terminate("panic")
          /\ UNCHANGED <<frames, trace>>
    /\ UNCHANGED <<KEYS, surface, window_size, player, pool, hist, presented,
                   cmds, submitted>>

\* The two polls of the key table and the moves they cause.
UpdatePlayer ==
    /\ pc = "update"
    /\ ev' = [kind |-> "redraw"]
    /\ LET right == is_key_pressed(KEYS, ArrowRight)
           left == is_key_pressed(KEYS, ArrowLeft)
           p0 == unwrap(player)
           p1 == IF right THEN move_by(p0, <<PlayerStep, 0>>) ELSE p0
           p2 == IF left THEN move_by(p1, <<-PlayerStep, 0>>) ELSE p1
       IN  /\ player' = Some(p2)
           /\ trace' = trace \o <<"poll">>
                             \o (IF right THEN <<"move_by">> ELSE <<>>)
                             \o <<"poll">>
                             \o (IF left THEN <<"move_by">> ELSE <<>>)
    /\ pc' = After("update")
    /\ UNCHANGED <<outcome, failed, KEYS, surface, window_size, pool, hist,
                   frames, presented, cmds, submitted>>

\* renderer.render(&view, &context, vec![player])
Render ==
    /\ pc = "render"
    /\ ev' = [kind |-> "redraw"]
    /\ LET sprites == <<unwrap(player)>>
       IN  /\ cmds' = render(Len(frames), sprites)
           /\ submitted' = GpuReads(sprites)
    /\ frames' = [frames EXCEPT ![Len(frames)].submits = @ + 1]
    /\ trace' = Append(trace, "render")
    /\ pc' = After("render")
    /\ UNCHANGED <<outcome, failed, KEYS, surface, window_size, player, pool,
                   hist, presented>>

\* frame.present(); window.request_redraw();
Present ==
    /\ pc = "present"
    /\ ev' = [kind |-> "redraw"]
    /\ presented' = Some(frames[Len(frames)])
    /\ frames' = present(frames)
    /\ trace' = trace \o <<"present", "request_redraw">>
    /\ pc' = After("present")
    /\ UNCHANGED <<outcome, failed, KEYS, surface, window_size, player, pool,
                   hist, cmds, submitted>>

\* WindowEvent::Resized(size)
Resized ==
    /\ pc = "loop"
    /\ \E size \in Sizes :
          /\ surface' = Resized_arm(surface, size)
          /\ window_size' = Some([size |-> size, by |-> "Resized"])
          /\ ev' = [kind |-> "resized", size |-> size]
    /\ HandlerStarts
    /\ UNCHANGED <<pc, outcome, failed, KEYS, player, pool, hist, frames>>

\* WindowEvent::KeyboardInput: Escape (or CloseRequested, below) leaves the
\* loop, a first press or a release of a coded key is registered, and any
\* other keyboard event falls through to `_ => {}`.
KeyboardInput ==
    /\ pc = "loop"
    /\ \E e \in KeyEvents :
          /\ ~e.coded => e.key = 0
          /\ ev' = [kind |-> "key", event |-> e, arm |-> KeyArm(e)]
          /\ \/ /\ KeyArm(e) = "exit"
                /\ Terminate("ok")
                /\ UNCHANGED KEYS
             \/ /\ KeyArm(e) = "register"
                /\ KEYS' = register_key_state(KEYS, e.key, e.state)
                /\ UNCHANGED <<pc, outcome>>
             \/ /\ KeyArm(e) = "ignore"
                /\ UNCHANGED <<pc, outcome, KEYS>>
    /\ HandlerStarts
    /\ UNCHANGED <<failed, surface, window_size, player, pool, hist, frames>>

\* WindowEvent::CloseRequested: target.exit(); run returns and main returns Ok.
CloseRequested ==
    /\ pc = "loop"
    /\ ev' = [kind |-> "close"]
    /\ Terminate("ok")
    /\ HandlerStarts
    /\ UNCHANGED <<failed, KEYS, surface, window_size, player, pool, hist,
                   frames>>

\* Any event no arm names.
OtherEvent ==
    /\ pc = "loop"
    /\ ev' = [kind |-> "other"]
    /\ HandlerStarts
    /\ UNCHANGED <<pc, outcome, failed, KEYS, surface, window_size, player,
                   pool, hist, frames>>

\* event_loop.run returns Err: `let _ =` drops it and main returns Ok(()).
RunError ==
    /\ pc \in {"run", "loop"}
    /\ failed' = failed \cup {"event_loop_run"}
    /\ Terminate("ok")
    /\ ev' = [kind |-> "run_error"]
    /\ HandlerStarts
    /\ UNCHANGED <<KEYS, surface, window_size, player, pool, hist, frames>>

Next ==
    \/ Startup
    \/ NewEventsInit
    \/ RedrawRequested
    \/ AcquireFrame
    \/ UpdatePlayer
    \/ Render
    \/ Present
    \/ Resized
    \/ KeyboardInput
    \/ CloseRequested
    \/ OtherEvent
    \/ RunError

Spec == Init /\ [][Next]_vars

----------------------------------------------------------------------------
(* The sprite and renderer interface driven directly: any sprites, any      *)
(* moves, any list handed to render().                                      *)

SpriteInputs == {<<PlayerPos, PlayerSize>>, << <<0, 0>>, <<2, 1>> >>}
Deltas == {<<PlayerStep, 0>>, <<-PlayerStep, PlayerStep>>}

RECURSIVE SumTrails(_)
SumTrails(h) == IF h = <<>> THEN 0 ELSE Len(Head(h).trail) + SumTrails(Tail(h))

SpriteLists ==
    UNION {[1..n -> 1..Len(pool)] : n \in 0..MaxList}

LibInit ==
    /\ pc = "lib"
    /\ outcome = "running"
    /\ failed = {}
    /\ KEYS = KEYS_init
    /\ surface = None
    /\ window_size = None
    /\ player = None
    /\ pool = <<>>
    /\ hist = <<>>
    /\ frames = <<>>
    /\ presented = None
    /\ cmds = <<>>
    /\ submitted = <<>>
    /\ trace = <<>>
    /\ ev = [kind |-> "none"]

\* Sprite::new(pos, size, ..)
LibSpriteNew ==
    /\ Len(pool) < MaxSprites
    /\ \E in \in SpriteInputs :
          LET s == Sprite_new(in[1], in[2], Len(pool) + 1)
          IN  /\ pool' = Append(pool, s)
              /\ hist' = Append(hist, [base |-> s.model_mat, trail |-> <<>>])
              /\ ev' = [kind |-> "new", id |-> Len(pool) + 1]
    /\ HandlerStarts
    /\ UNCHANGED <<pc, outcome, failed, KEYS, surface, window_size, player,
                   frames>>

\* sprite.move_by(v, ..)
LibMoveBy ==
    /\ SumTrails(hist) < MaxMoves
    /\ \E i \in 1..Len(pool), v \in Deltas :
          /\ pool' = [pool EXCEPT ![i] = move_by(@, v)]
          /\ hist' = [hist EXCEPT ![i].trail = Append(@, v)]
          /\ ev' = [kind |-> "move_by", id |-> i]
    /\ HandlerStarts
    /\ UNCHANGED <<pc, outcome, failed, KEYS, surface, window_size, player,
                   frames>>

\* renderer.render(target, .., sprites).  render() changes no sprite, so a
\* second render straight after one is left out: it would only repeat it.
LibRender ==
    /\ ev.kind # "render"
    /\ \E list \in SpriteLists :
          LET sprites == [j \in 1..Len(list) |-> pool[list[j]]]
          IN  /\ cmds' = render(0, sprites)
              /\ submitted' = GpuReads(sprites)
              /\ ev' = [kind |-> "render", list |-> list]
    /\ UNCHANGED <<pc, outcome, failed, KEYS, surface, window_size, player,
                   pool, hist, frames, presented, trace>>

LibNext ==
    \/ LibSpriteNew
    \/ LibMoveBy
    \/ LibRender

SpecLib == LibInit /\ [][LibNext]_vars

----------------------------------------------------------------------------
(* Reference definitions the properties are stated with *)

Dot(a, b, r, c) ==
    a[r][1] * b[1][c] + a[r][2] * b[2][c] + a[r][3] * b[3][c] + a[r][4] * b[4][c]

MatRow(a, b, r) == <<Dot(a, b, r, 1), Dot(a, b, r, 2), Dot(a, b, r, 3), Dot(a, b, r, 4)>>

MatMul(a, b) == <<MatRow(a, b, 1), MatRow(a, b, 2), MatRow(a, b, 3), MatRow(a, b, 4)>>

TranslationMat(d) ==
    << <<1, 0, 0, d[1]>>,
       <<0, 1, 0, d[2]>>,
       <<0, 0, 1, 0>>,
       <<0, 0, 0, 1>> >>

\* m . T(ds[1]) . ... . T(ds[n])
RECURSIVE Moved(_, _)
Moved(m, ds) ==
    IF ds = <<>> THEN m
    ELSE Moved(MatMul(m, TranslationMat(Head(ds))), Tail(ds))

Count(seq, op) == Cardinality({i \in 1..Len(seq) : seq[i].op = op})

Occurrences(seq, x) == Cardinality({i \in 1..Len(seq) : seq[i] = x})

AllSprites == pool \o player

Clamped(n) == IF n = 0 THEN 1 ELSE n

----------------------------------------------------------------------------
(* C1: every sprite's transform buffer holds the serialized current model   *)
(* matrix, after Sprite::new and after every move_by, and what a submitted  *)
(* draw reads from the buffer is the serialized current matrix.             *)
C1_BufferHoldsMatrix ==
    /\ \A i \in 1..Len(AllSprites) :
          AllSprites[i].model_buf = Serialize(AllSprites[i].model_mat)
    /\ ev.kind = "render" =>
          /\ Len(submitted) = Len(ev.list)
          /\ \A j \in 1..Len(ev.list) :
                submitted[j] = Serialize(pool[ev.list[j]].model_mat)
    /\ (is_some(player) /\ submitted # <<>>) =>
          submitted = <<Serialize(unwrap(player).model_mat)>>

\* A moved sprite has just been drawn.
C1_Witness ==
    /\ ev.kind = "render"
    /\ \E j \in 1..Len(ev.list) : hist[ev.list[j]].trail # <<>>

----------------------------------------------------------------------------
(* C2: the key table starts all false; a key event that is registered       *)
(* leaves is_key_pressed(k) true after Pressed and false after Released;    *)
(* and an entry changes only when a key event for that key is registered,   *)
(* so a key never written keeps reading false.                              *)
C2_KeyTableReadsBack ==
    /\ \A k \in KeyCodes : ~is_key_pressed(KEYS, k)
    /\ [][/\ (ev'.kind = "key" /\ ev'.arm = "register") =>
                is_key_pressed(KEYS', ev'.event.key) = (ev'.event.state = "Pressed")
          /\ \A k \in KeyCodes :
                is_key_pressed(KEYS', k) # is_key_pressed(KEYS, k) =>
                   (ev'.kind = "key" /\ ev'.arm = "register" /\ ev'.event.key = k)
         ]_vars

\* A release has just been registered while another key is held and a third
\* was never touched or is up.
C2_Witness ==
    /\ ev.kind = "key"
    /\ ev.arm = "register"
    /\ ev.event.state = "Released"
    /\ \E k \in KeyCodes : k # ev.event.key /\ is_key_pressed(KEYS, k)

----------------------------------------------------------------------------
(* C3: handling a keyboard event whose repeat flag is set leaves every      *)
(* entry of KEYS unchanged; only events with repeat = false write it.       *)
C3_RepeatNeverWrites ==
    [][/\ (ev'.kind = "key" /\ ev'.event.repeat) => KEYS' = KEYS
       /\ KEYS' # KEYS => (ev'.kind = "key" /\ ~ev'.event.repeat)
      ]_vars

\* A repeated press of a coded key whose entry is (still) false was handled.
C3_Witness ==
    /\ ev.kind = "key"
    /\ ev.event.repeat
    /\ ev.event.coded
    /\ ~ev.event.escape
    /\ ev.event.state = "Pressed"
    /\ ~is_key_pressed(KEYS, ev.event.key)

----------------------------------------------------------------------------
(* C4: once the surface exists its configuration has width >= 1 and         *)
(* height >= 1; Surface::new and every resize leave each dimension equal    *)
(* to the size given, with 0 replaced by 1 (so (0,0) gives (1,1) and        *)
(* (w,h) with w,h >= 1 gives (w,h)).                                        *)
C4_SurfaceNeverZero ==
    is_some(surface) =>
        LET config == unwrap(surface).config
        IN  /\ config.width >= 1
            /\ config.height >= 1
            /\ ev.kind \in {"init", "resized"} =>
                  /\ config.width = Clamped(ev.size.width)
                  /\ config.height = Clamped(ev.size.height)
                  /\ unwrap(surface).configured = config

\* A resize to (0,0) has just been handled.
C4_Witness ==
    /\ ev.kind = "resized"
    /\ ev.size = [width |-> 0, height |-> 0]
    /\ unwrap(surface).config = [width |-> 1, height |-> 1]

----------------------------------------------------------------------------
----------------------------------------------------------------------------
(* C6, as claimed: within a redraw the input is polled and the transforms   *)
(* are updated before the frame is acquired, then comes the render pass,    *)
(* then the present.                                                        *)
RankClaimed(op) ==
    CASE op \in {"poll", "move_by"} -> 1
      [] op = "acquire" -> 2
      [] op = "render" -> 3
      [] op = "present" -> 4
      [] op = "request_redraw" -> 5

RankInCode(op) ==
    CASE op = "acquire" -> 1
      [] op \in {"poll", "move_by"} -> 2
      [] op = "render" -> 3
      [] op = "present" -> 4
      [] op = "request_redraw" -> 5

----------------------------------------------------------------------------
(* C7: render() records one render pass that clears to (0.2,0.2,0.2,1.0),   *)
(* binds the pipeline, the vertex buffer and the per-frame bind group at    *)
(* slot 0, then for each sprite in list order binds its bind group at slot  *)
(* 1 and draws 6 vertices once, and submits once; the draws are as many as  *)
(* the sprites, none for the empty list.                                    *)
C7_OnePassInOrder ==
    ev.kind = "render" =>
        LET n == Len(ev.list)
        IN  /\ Len(cmds) = 2 * n + 6
            /\ cmds[1].op = "begin_render_pass"
            /\ cmds[1].arg = <<20, 20, 20, 100>>
            /\ cmds[2].op = "set_pipeline"
            /\ cmds[3] = Cmd("set_vertex_buffer", 0, <<>>)
            /\ cmds[4] = Cmd("set_bind_group", 0, <<proj_bind_group>>)
            /\ \A j \in 1..n :
                  /\ cmds[3 + 2 * j] =
                        Cmd("set_bind_group", 1, <<pool[ev.list[j]].bind_group>>)
                  /\ cmds[4 + 2 * j] = Cmd("draw", 0, <<6, 1>>)
            /\ cmds[2 * n + 5].op = "end_render_pass"
            /\ cmds[2 * n + 6].op = "submit"
            /\ Count(cmds, "begin_render_pass") = 1
            /\ Count(cmds, "submit") = 1
            /\ Count(cmds, "draw") = n

\* Two different sprites were rendered, the later-created one first.
C7_Witness ==
    /\ ev.kind = "render"
    /\ Len(ev.list) = 2
    /\ ev.list[1] > ev.list[2]

----------------------------------------------------------------------------
(* C8: no fallible step fails without the process ending with an error.     *)
C8_NoSilentFailure ==
    failed # {} => outcome \in {"err", "panic"}

----------------------------------------------------------------------------
(* C9: at most one frame is outstanding; a frame is outstanding only       *)
(* inside the redraw handler that acquired it, so none is when an event is  *)
(* dispatched or the process has ended; and the frame a handler presents    *)
(* has had exactly one command buffer submitted for it.                     *)
C9_OneFrameOutstanding ==
    /\ Len(frames) <= 1
    /\ pc \in {"start", "run", "loop", "done"} => frames = <<>>
    /\ Count(cmds, "submit") <= 1
    /\ is_some(presented) => unwrap(presented).submits = 1
    /\ (ev.kind = "redraw" /\ pc = "loop") => is_some(presented)

\* A redraw has finished and presented its frame.
C9_Witness ==
    /\ ev.kind = "redraw"
    /\ pc = "loop"
    /\ is_some(presented)
    /\ Count(cmds, "submit") = 1

----------------------------------------------------------------------------
(* C10: the surface is configured with, and every frame acquired has, the   *)
(* clamped dimensions of the size the window reported last.                 *)
C10_FrameHasReportedSize ==
    is_some(surface) =>
        LET reported == unwrap(window_size).size
            want == [width |-> Max(reported.width, 1),
                     height |-> Max(reported.height, 1)]
        IN  /\ unwrap(surface).configured = want
            /\ \A i \in 1..Len(frames) :
                  /\ frames[i].width = want.width
                  /\ frames[i].height = want.height

\* A frame was acquired when the last report was a Resized event with one
\* dimension zero and the other the largest size.
C10_Witness ==
    /\ frames # <<>>
    /\ unwrap(window_size).by = "Resized"
    /\ frames[1].width = MaxDim
    /\ unwrap(window_size).size.height = 0

----------------------------------------------------------------------------
(* main.rs: Vertex and the vertex buffer layout Renderer::init declares *)

size_of_f32 == 4

\* #[repr(C)] struct Vertex { pos: [f32; 2], tex_coord: [f32; 2] }: each
\* field's component count, laid out in declaration order without padding.
Vertex == << [name |-> "pos", components |-> 2],
             [name |-> "tex_coord", components |-> 2] >>

RECURSIVE FieldOffset(_, _)
FieldOffset(fields, i) ==
    IF i = 1 THEN 0
    ELSE FieldOffset(fields, i - 1) + fields[i - 1].components * size_of_f32

size_of_Vertex == FieldOffset(Vertex, Len(Vertex)) + Vertex[Len(Vertex)].components * size_of_f32

\* wgpu::VertexFormat::Float32xN: N components of 4 bytes.
FormatComponents(format) ==
    CASE format = "Float32" -> 1
      [] format = "Float32x2" -> 2
      [] format = "Float32x3" -> 3
      [] format = "Float32x4" -> 4

FormatSize(format) == FormatComponents(format) * size_of_f32

vertex_buffers ==
    << [array_stride |-> 4 * size_of_f32,
        step_mode |-> "Vertex",
        attributes |->
            << [format |-> "Float32x2", offset |-> 0, shader_location |-> 0],
               [format |-> "Float32x3", offset |-> 2 * size_of_f32,
                shader_location |-> 1] >>] >>

\* The pipeline exists from the Init event on, built together with the
\* surface and the player.
pipeline == IF is_some(player) THEN Some([buffers |-> vertex_buffers]) ELSE None

----------------------------------------------------------------------------
(* C11: the pipeline's single vertex buffer layout has a stride of 16       *)
(* bytes, attribute 0 a 2-float at offset 0 and attribute 1 a 2-float at    *)
(* offset 8; every attribute's bytes lie within the stride and the          *)
(* attributes match the fields of Vertex.                                   *)
C11_VertexLayoutMatchesVertex ==
    is_some(pipeline) =>
        LET buffers == unwrap(pipeline).buffers
            layout == buffers[1]
            attrs == layout.attributes
        IN  /\ Len(buffers) = 1
            /\ layout.array_stride = 16
            /\ layout.array_stride = size_of_Vertex
            /\ Len(attrs) = Len(Vertex)
            /\ attrs[1].format = "Float32x2" /\ attrs[1].offset = 0
            /\ attrs[2].format = "Float32x2" /\ attrs[2].offset = 8
            /\ \A i \in 1..Len(attrs) :
                  /\ attrs[i].shader_location = i - 1
                  /\ attrs[i].offset = FieldOffset(Vertex, i)
                  /\ FormatComponents(attrs[i].format) = Vertex[i].components
                  /\ attrs[i].offset + FormatSize(attrs[i].format)
                        <= layout.array_stride

====
